---- MODULE Spec2Model ----
(***************************************************************************)
(* Model of the content-addressed storage object class (cls_cas.cc): the   *)
(* PUT, UP and DOWN methods, the helpers they are built from, and the      *)
(* per-object backend (payload + extended attributes) they run against.    *)
(*                                                                         *)
(* Every method runs with exclusive access to its object, so one method    *)
(* invocation is one action.  The helpers are operators that thread a      *)
(* method context (the object, the backend calls made so far, the injected *)
(* fault) through the backend calls in the order the code makes them.      *)
(*                                                                         *)
(* TLC's integers are 32 bits wide, so the uint64_t counter is kept with a *)
(* scaled width of CounterBits bits and the int return code with IntBits   *)
(* bits; all arithmetic on them is done modulo the width, as in the code.  *)
(***************************************************************************)
EXTENDS Integers, Sequences, FiniteSets, TLC

\* ------------------------------------------------------------------ bounds
CounterBits == 2
IntBits == 2
MaxFault == 5
MaxIssued == 3
MaxPairs == 2

\* --------------------------------------------------------------- constants
ENOENT == 2
EIO == 5
EINVAL == 22
ENODATA == 61

CAS_REFCOUNT_ATTR == <<"cas.refcount">>
CAS_PINNED_ATTR == <<"cas.pinned">>
CAS_METADATA_ATTR_PREFIX == "cas.meta."

RECURSIVE Pow2(_)
Pow2(n) == IF n = 0 THEN 1 ELSE 2 * Pow2(n - 1)

\* 2^w for the unsigned counter, and std::numeric_limits<uint64_t>::max()
Modulus == Pow2(CounterBits)
UINT64_MAX == Modulus - 1

\* conversion of a signed delta (int64_t) to the unsigned counter type
ToUnsigned(delta) == delta % Modulus

\* conversion of an unsigned counter to the int a method returns
ToInt(v) ==
  LET m == v % Pow2(IntBits)
  IN  IF m >= Pow2(IntBits - 1) THEN m - Pow2(IntBits) ELSE m

\* ------------------------------------------------------------------ inputs
Ids == {"a", "b"}
Payloads == {"hello", "world"}
NoData == "-"
MetaKeys == {1}
MetaVals == {<<118>>}
Times == {1}
Metadatas == UNION {[K -> MetaVals] : K \in SUBSET MetaKeys}

\* the "in" bufferlist of PUT: a JSON document that may fail to parse, or
\* parse and lack one of the two mandatory members
Envelope(p, hm, hd, m, d) ==
  [parsable |-> p, has_meta |-> hm, has_data |-> hd, meta |-> m, data |-> d]
ValidEnvelopes == {Envelope(TRUE, TRUE, TRUE, m, d) : m \in Metadatas, d \in Payloads}
MalformedEnvelopes ==
  {Envelope(FALSE, FALSE, FALSE, <<>>, NoData),
   Envelope(TRUE, FALSE, TRUE, <<>>, "hello"),
   Envelope(TRUE, TRUE, FALSE, <<>>, NoData)}
Envelopes == ValidEnvelopes \cup MalformedEnvelopes
\* envelopes whose "meta" holds up to MaxPairs pairs, around one payload
PairKeys == 1..MaxPairs
PairEnvelopes ==
  {Envelope(TRUE, TRUE, TRUE, m, "hello") :
     m \in UNION {[K -> MetaVals] : K \in SUBSET PairKeys}}

\* ---------------------------------------------------------------- encoding
\* ::encode(uint64_t): the fixed-width little-endian image of the value
RECURSIVE BitsOf(_, _)
BitsOf(n, w) == IF w = 0 THEN <<>> ELSE <<n % 2>> \o BitsOf(n \div 2, w - 1)
encode(n) == BitsOf(n % Modulus, CounterBits)

\* ::decode(uint64_t&): reads the first CounterBits units of the buffer and
\* throws buffer::error when the buffer is shorter
DecodeThrows(bl) == Len(bl) < CounterBits
RECURSIVE ValueOf(_, _)
ValueOf(bl, w) == IF w = 0 THEN 0 ELSE ValueOf(bl, w - 1) + bl[w] * Pow2(w - 1)
decode(bl) == ValueOf(bl, CounterBits)

\* ::encode(std::string): length prefix followed by the characters
encode_string(s) == <<Len(s)>> \o s

\* ----------------------------------------------------------------- backend
\* One object of the store: existence, payload, extended attributes.
AbsentObject == [exists |-> FALSE, data |-> NoData, xattrs |-> <<>>]

\* The method context of one invocation.
Context(obj, fault) == [obj |-> obj, calls |-> <<>>, fault |-> fault]
Called(ctx, name) == [ctx EXCEPT !.calls = Append(@, name)]
\* the backend call about to be made is the one the fault is injected into
Faulty(ctx) == ctx.fault = Len(ctx.calls) + 1

cls_cxx_stat(ctx) ==
  LET c == Called(ctx, "stat")
  IN  IF Faulty(ctx) THEN [ret |-> -EIO, ctx |-> c]
      ELSE IF ~ctx.obj.exists THEN [ret |-> -ENOENT, ctx |-> c]
      ELSE [ret |-> 0, ctx |-> c]

cls_cxx_getxattr(ctx, name) ==
  LET c == Called(ctx, "getxattr")
  IN  IF Faulty(ctx) THEN [ret |-> -EIO, bl |-> <<>>, ctx |-> c]
      ELSE IF ~ctx.obj.exists THEN [ret |-> -ENOENT, bl |-> <<>>, ctx |-> c]
      ELSE IF name \notin DOMAIN ctx.obj.xattrs
        THEN [ret |-> -ENODATA, bl |-> <<>>, ctx |-> c]
      ELSE [ret |-> Len(ctx.obj.xattrs[name]), bl |-> ctx.obj.xattrs[name], ctx |-> c]

cls_cxx_setxattr(ctx, name, bl) ==
  LET c == Called(ctx, "setxattr")
      x == ctx.obj.xattrs
  IN  IF Faulty(ctx) THEN [ret |-> -EIO, ctx |-> c]
      ELSE [ret |-> 0,
            ctx |-> [c EXCEPT !.obj.exists = TRUE,
                              !.obj.xattrs = [n \in (DOMAIN x) \cup {name} |->
                                                IF n = name THEN bl ELSE x[n]]]]

cls_cxx_write_full(ctx, data) ==
  LET c == Called(ctx, "write_full")
  IN  IF Faulty(ctx) THEN [ret |-> -EIO, ctx |-> c]
      ELSE [ret |-> 0, ctx |-> [c EXCEPT !.obj.exists = TRUE, !.obj.data = data]]

cls_cxx_remove(ctx) ==
  LET c == Called(ctx, "remove")
  IN  IF Faulty(ctx) THEN [ret |-> -EIO, ctx |-> c]
      ELSE IF ~ctx.obj.exists THEN [ret |-> -ENOENT, ctx |-> c]
      ELSE [ret |-> 0, ctx |-> [c EXCEPT !.obj = AbsentObject]]

cls_cxx_read(ctx) ==
  LET c == Called(ctx, "read")
  IN  IF Faulty(ctx) THEN [ret |-> -EIO, bl |-> NoData, ctx |-> c]
      ELSE IF ~ctx.obj.exists THEN [ret |-> -ENOENT, bl |-> NoData, ctx |-> c]
      ELSE [ret |-> 0, bl |-> ctx.obj.data, ctx |-> c]

\* ----------------------------------------------------------------- helpers
\* "r = f(...); <rest>": the result of a call, computed once, is handed to
\* the rest of the function
Bind(r, Rest(_)) == Rest(r)

get_refcount(ctx) ==
  Bind(cls_cxx_getxattr(ctx, CAS_REFCOUNT_ATTR), LAMBDA g :
    IF g.ret = -ENODATA \/ g.ret = -ENOENT
      THEN [ret |-> 0, refcount |-> 0, ctx |-> g.ctx]
    ELSE IF g.ret < 0
      THEN [ret |-> g.ret, refcount |-> 0, ctx |-> g.ctx]
    ELSE IF DecodeThrows(g.bl)
      THEN [ret |-> -EIO, refcount |-> 0, ctx |-> g.ctx]
    ELSE [ret |-> 0, refcount |-> decode(g.bl), ctx |-> g.ctx])

set_refcount(ctx, refcount) ==
  Bind(cls_cxx_setxattr(ctx, CAS_REFCOUNT_ATTR, encode(refcount)), LAMBDA s :
    IF s.ret < 0 THEN [ret |-> s.ret, ctx |-> s.ctx]
    ELSE [ret |-> 0, ctx |-> s.ctx])

pin_object(ctx, now) ==
  Bind(cls_cxx_setxattr(ctx, CAS_PINNED_ATTR, encode(now)), LAMBDA s :
    IF s.ret < 0 THEN [ret |-> s.ret, ctx |-> s.ctx]
    ELSE [ret |-> 0, ctx |-> s.ctx])

\* out_pinned and out_pinned_since are out parameters: pinned_in and since_in
\* are what the caller's variables hold at the call (since_in is <<>> for a
\* null pointer, <<v>> for a variable holding v), pinned and since what they
\* hold at the return.  The return inside the try block leaves the function
\* before the assignments to *out_pinned and *out_pinned_since.
object_pinned(ctx, pinned_in, since_in) ==
  Bind(cls_cxx_getxattr(ctx, CAS_PINNED_ATTR), LAMBDA g :
    IF g.ret = -ENODATA
      THEN [ret |-> 0, pinned |-> FALSE, since |-> since_in, ctx |-> g.ctx]
    ELSE IF g.ret < 0
      THEN [ret |-> g.ret, pinned |-> pinned_in, since |-> since_in, ctx |-> g.ctx]
    ELSE IF DecodeThrows(g.bl)
      THEN [ret |-> -EIO, pinned |-> pinned_in, since |-> since_in, ctx |-> g.ctx]
    ELSE [ret |-> 0, pinned |-> pinned_in, since |-> since_in, ctx |-> g.ctx])

\* cur_refcount + delta, formed in the unsigned counter type
Sum(cur_refcount, delta) == (cur_refcount + ToUnsigned(delta)) % Modulus

\* mutant: the sign of delta is lost, every call adds one
mod_refcount_unsigned_delta(ctx, delta, out_in, now) ==
  Bind(get_refcount(ctx), LAMBDA g :
    IF g.ret < 0 THEN [ret |-> g.ret, out |-> out_in, ctx |-> g.ctx]
    ELSE Bind(set_refcount(g.ctx, Sum(g.refcount, 1)), LAMBDA s :
      IF s.ret < 0 THEN [ret |-> s.ret, out |-> out_in, ctx |-> s.ctx]
      ELSE [ret |-> 0, out |-> Sum(g.refcount, 1), ctx |-> s.ctx]))

\* mutant: the new counter is formed from the caller's variable, not from the
\* counter that was read
mod_refcount_stale(ctx, delta, out_in, now) ==
  Bind(get_refcount(ctx), LAMBDA g :
    IF g.ret < 0 THEN [ret |-> g.ret, out |-> out_in, ctx |-> g.ctx]
    ELSE Bind(set_refcount(g.ctx, Sum(out_in, delta)), LAMBDA s :
      IF s.ret < 0 THEN [ret |-> s.ret, out |-> out_in, ctx |-> s.ctx]
      ELSE [ret |-> 0, out |-> Sum(out_in, delta), ctx |-> s.ctx]))

\* mutant: the overflow test is "> 0", true of every sum but 0
mod_refcount_pin_always(ctx, delta, out_in, now) ==
  Bind(get_refcount(ctx), LAMBDA g :
    IF g.ret < 0 THEN [ret |-> g.ret, out |-> out_in, ctx |-> g.ctx]
    ELSE Bind(IF Sum(g.refcount, delta) > 0
                THEN [new_refcount |-> UINT64_MAX, pin |-> pin_object(g.ctx, now)]
              ELSE [new_refcount |-> Sum(g.refcount, delta),
                    pin |-> [ret |-> 0, ctx |-> g.ctx]], LAMBDA b :
      IF b.pin.ret < 0 THEN [ret |-> b.pin.ret, out |-> out_in, ctx |-> b.pin.ctx]
      ELSE Bind(set_refcount(b.pin.ctx, b.new_refcount), LAMBDA s :
        IF s.ret < 0 THEN [ret |-> s.ret, out |-> out_in, ctx |-> s.ctx]
        ELSE [ret |-> 0, out |-> b.new_refcount, ctx |-> s.ctx])))

\* out_in is the value of the caller's *out_new_refcount at the call
mod_refcount(ctx, delta, out_in, now) ==
  Bind(get_refcount(ctx), LAMBDA g :
    IF g.ret < 0 THEN [ret |-> g.ret, out |-> out_in, ctx |-> g.ctx]
    ELSE Bind(IF Sum(g.refcount, delta) > UINT64_MAX
                THEN [new_refcount |-> UINT64_MAX, pin |-> pin_object(g.ctx, now)]
              ELSE [new_refcount |-> Sum(g.refcount, delta),
                    pin |-> [ret |-> 0, ctx |-> g.ctx]], LAMBDA b :
      IF b.pin.ret < 0 THEN [ret |-> b.pin.ret, out |-> out_in, ctx |-> b.pin.ctx]
      ELSE Bind(set_refcount(b.pin.ctx, b.new_refcount), LAMBDA s :
        IF s.ret < 0 THEN [ret |-> s.ret, out |-> out_in, ctx |-> s.ctx]
        ELSE [ret |-> 0, out |-> b.new_refcount, ctx |-> s.ctx])))

Least(S) == CHOOSE k \in S : \A j \in S : k <= j

\* the loop over the std::map, in key order, from the keys not yet written
RECURSIVE set_cas_metadata_from(_, _, _)
set_cas_metadata_from(ctx, metadata, keys) ==
  IF keys = {} THEN [ret |-> 0, ctx |-> ctx]
  ELSE Bind(cls_cxx_setxattr(ctx, <<CAS_METADATA_ATTR_PREFIX, Least(keys)>>,
                             encode_string(metadata[Least(keys)])), LAMBDA s :
         IF s.ret < 0 THEN [ret |-> s.ret, ctx |-> s.ctx]
         ELSE set_cas_metadata_from(s.ctx, metadata, keys \ {Least(keys)}))

set_cas_metadata(ctx, metadata) ==
  set_cas_metadata_from(ctx, metadata, DOMAIN metadata)

\* JSONDecoder throws when the document does not parse or a mandatory
\* member is missing
JsonThrows(in) == ~in.parsable \/ ~in.has_meta \/ ~in.has_data

\* mutant: the counter of a new object starts at 0
initialize_object_zero(ctx, in) ==
  IF JsonThrows(in) THEN [ret |-> -EINVAL, ctx |-> ctx]
  ELSE Bind(cls_cxx_write_full(ctx, in.data), LAMBDA w :
    IF w.ret < 0 THEN [ret |-> w.ret, ctx |-> w.ctx]
    ELSE Bind(set_refcount(w.ctx, 0), LAMBDA s :
      IF s.ret < 0 THEN [ret |-> s.ret, ctx |-> s.ctx]
      ELSE Bind(set_cas_metadata(s.ctx, in.meta), LAMBDA m :
        IF m.ret < 0 THEN [ret |-> m.ret, ctx |-> m.ctx]
        ELSE [ret |-> 0, ctx |-> m.ctx])))

\* mutant: the payload is written before the envelope is found malformed
initialize_object_write_first(ctx, in) ==
  Bind(cls_cxx_write_full(ctx, in.data), LAMBDA w :
    IF JsonThrows(in) THEN [ret |-> -EINVAL, ctx |-> w.ctx]
    ELSE IF w.ret < 0 THEN [ret |-> w.ret, ctx |-> w.ctx]
    ELSE Bind(set_refcount(w.ctx, 1), LAMBDA s :
      IF s.ret < 0 THEN [ret |-> s.ret, ctx |-> s.ctx]
      ELSE Bind(set_cas_metadata(s.ctx, in.meta), LAMBDA m :
        IF m.ret < 0 THEN [ret |-> m.ret, ctx |-> m.ctx]
        ELSE [ret |-> 0, ctx |-> m.ctx])))

\* mutant: the metadata is written before the counter
initialize_object_meta_first(ctx, in) ==
  IF JsonThrows(in) THEN [ret |-> -EINVAL, ctx |-> ctx]
  ELSE Bind(cls_cxx_write_full(ctx, in.data), LAMBDA w :
    IF w.ret < 0 THEN [ret |-> w.ret, ctx |-> w.ctx]
    ELSE Bind(set_cas_metadata(w.ctx, in.meta), LAMBDA m :
      IF m.ret < 0 THEN [ret |-> m.ret, ctx |-> m.ctx]
      ELSE Bind(set_refcount(m.ctx, 1), LAMBDA s :
        IF s.ret < 0 THEN [ret |-> s.ret, ctx |-> s.ctx]
        ELSE [ret |-> 0, ctx |-> s.ctx])))

initialize_object(ctx, in) ==
  IF JsonThrows(in) THEN [ret |-> -EINVAL, ctx |-> ctx]
  ELSE Bind(cls_cxx_write_full(ctx, in.data), LAMBDA w :
    IF w.ret < 0 THEN [ret |-> w.ret, ctx |-> w.ctx]
    ELSE Bind(set_refcount(w.ctx, 1), LAMBDA s :
      IF s.ret < 0 THEN [ret |-> s.ret, ctx |-> s.ctx]
      ELSE Bind(set_cas_metadata(s.ctx, in.meta), LAMBDA m :
        IF m.ret < 0 THEN [ret |-> m.ret, ctx |-> m.ctx]
        ELSE [ret |-> 0, ctx |-> m.ctx])))

\* mutant: the local "pinned" starts out false
destroy_object_pinned_false(ctx) ==
  Bind(object_pinned(ctx, FALSE, <<>>), LAMBDA q :
    IF q.ret < 0 THEN [ret |-> q.ret, ctx |-> q.ctx]
    ELSE IF ~q.pinned
      THEN Bind(cls_cxx_remove(q.ctx), LAMBDA r :
             IF r.ret < 0 THEN [ret |-> r.ret, ctx |-> r.ctx]
             ELSE [ret |-> 0, ctx |-> r.ctx])
    ELSE [ret |-> 0, ctx |-> q.ctx])

destroy_object(ctx) ==
  Bind(object_pinned(ctx, TRUE, <<>>), LAMBDA q :
    IF q.ret < 0 THEN [ret |-> q.ret, ctx |-> q.ctx]
    ELSE IF ~q.pinned
      THEN Bind(cls_cxx_remove(q.ctx), LAMBDA r :
             IF r.ret < 0 THEN [ret |-> r.ret, ctx |-> r.ctx]
             ELSE [ret |-> 0, ctx |-> r.ctx])
    ELSE [ret |-> 0, ctx |-> q.ctx])

\* ----------------------------------------------------------------- methods
\* Each method yields its return code, its out bufferlist and the context.
Returned(ret, out, r) == [ret |-> ret, out |-> out, ctx |-> r.ctx]

\* mutant: an existing object is initialized again
cls_cas_put_always_init(ctx, in, now) ==
  Bind(cls_cxx_stat(ctx), LAMBDA st :
    IF st.ret < 0 /\ st.ret # -ENOENT THEN Returned(st.ret, <<>>, st)
    ELSE Bind(initialize_object(st.ctx, in), LAMBDA i : Returned(i.ret, <<>>, i)))

\* mutant: the metadata of a PUT on an existing object is stored
cls_cas_put_store_meta(ctx, in, now) ==
  Bind(cls_cxx_stat(ctx), LAMBDA st :
    IF st.ret = -ENOENT
      THEN Bind(initialize_object(st.ctx, in), LAMBDA i : Returned(i.ret, <<>>, i))
    ELSE IF st.ret < 0 THEN Returned(st.ret, <<>>, st)
    ELSE Bind(mod_refcount(st.ctx, 1, 0, now), LAMBDA m :
      IF m.ret < 0 \/ JsonThrows(in) THEN Returned(m.ret, <<>>, m)
      ELSE Bind(set_cas_metadata(m.ctx, in.meta), LAMBDA x : Returned(x.ret, <<>>, x))))

\* mutant: every failure of stat is taken for "the object does not exist"
cls_cas_put_any_stat_error(ctx, in, now) ==
  Bind(cls_cxx_stat(ctx), LAMBDA st :
    IF st.ret < 0
      THEN Bind(initialize_object(st.ctx, in), LAMBDA i : Returned(i.ret, <<>>, i))
    ELSE Bind(mod_refcount(st.ctx, 1, 0, now), LAMBDA m : Returned(m.ret, <<>>, m)))

cls_cas_put(ctx, in, now) ==
  Bind(cls_cxx_stat(ctx), LAMBDA st :
    IF st.ret = -ENOENT
      THEN Bind(initialize_object(st.ctx, in), LAMBDA i : Returned(i.ret, <<>>, i))
    ELSE IF st.ret < 0 THEN Returned(st.ret, <<>>, st)
    ELSE Bind(mod_refcount(st.ctx, 1, 0, now), LAMBDA m : Returned(m.ret, <<>>, m)))

\* mutant: the absent case is not told apart
cls_cas_up_no_enoent(ctx, now) ==
  Bind(cls_cxx_stat(ctx), LAMBDA st :
    IF st.ret < 0 /\ st.ret # -ENOENT THEN Returned(st.ret, <<>>, st)
    ELSE Bind(mod_refcount(st.ctx, 1, 0, now), LAMBDA m :
      Returned(m.ret, encode(m.out), m)))

\* mutant: out is filled before the counter is modified
cls_cas_up_early_out(ctx, now) ==
  Bind(cls_cxx_stat(ctx), LAMBDA st :
    IF st.ret = -ENOENT THEN Returned(-EINVAL, <<>>, st)
    ELSE IF st.ret < 0 THEN Returned(st.ret, <<>>, st)
    ELSE Bind(mod_refcount(st.ctx, 1, 0, now), LAMBDA m :
      Returned(m.ret, encode(0), m)))

cls_cas_up(ctx, now) ==
  Bind(cls_cxx_stat(ctx), LAMBDA st :
    IF st.ret = -ENOENT THEN Returned(-EINVAL, <<>>, st)
    ELSE IF st.ret < 0 THEN Returned(st.ret, <<>>, st)
    ELSE Bind(mod_refcount(st.ctx, 1, 0, now), LAMBDA m :
      Returned(m.ret, encode(m.out), m)))

\* mutant: the absent case is not told apart
cls_cas_down_no_enoent(ctx, now) ==
  Bind(cls_cxx_stat(ctx), LAMBDA st :
    IF st.ret < 0 /\ st.ret # -ENOENT THEN Returned(st.ret, <<>>, st)
    ELSE Bind(mod_refcount(st.ctx, -1, 0, now), LAMBDA m :
      Bind(IF m.out <= 0 THEN destroy_object(m.ctx)
           ELSE [ret |-> m.ret, ctx |-> m.ctx], LAMBDA d :
        Returned(ToInt(m.out), encode(m.out), d))))

\* mutant: the test for zero is "< 0", never true of an unsigned counter
cls_cas_down_never_destroys(ctx, now) ==
  Bind(cls_cxx_stat(ctx), LAMBDA st :
    IF st.ret = -ENOENT THEN Returned(-EINVAL, <<>>, st)
    ELSE IF st.ret < 0 THEN Returned(st.ret, <<>>, st)
    ELSE Bind(mod_refcount(st.ctx, -1, 0, now), LAMBDA m :
      Returned(ToInt(m.out), encode(m.out), m)))

\* mutant: the out buffer is filled before the counter is modified
cls_cas_down_early_out(ctx, now) ==
  Bind(cls_cxx_stat(ctx), LAMBDA st :
    IF st.ret = -ENOENT THEN Returned(-EINVAL, <<>>, st)
    ELSE IF st.ret < 0 THEN Returned(st.ret, <<>>, st)
    ELSE Bind(mod_refcount(st.ctx, -1, 0, now), LAMBDA m :
      Bind(IF m.out <= 0 THEN destroy_object(m.ctx)
           ELSE [ret |-> m.ret, ctx |-> m.ctx], LAMBDA d :
        Returned(ToInt(m.out), encode(0), d))))

\* new_refcount is m.out: 0 at its declaration, the new counter once
\* mod_refcount has succeeded
cls_cas_down(ctx, now) ==
  Bind(cls_cxx_stat(ctx), LAMBDA st :
    IF st.ret = -ENOENT THEN Returned(-EINVAL, <<>>, st)
    ELSE IF st.ret < 0 THEN Returned(st.ret, <<>>, st)
    ELSE Bind(mod_refcount(st.ctx, -1, 0, now), LAMBDA m :
      Bind(IF m.out <= 0 THEN destroy_object(m.ctx)
           ELSE [ret |-> m.ret, ctx |-> m.ctx], LAMBDA d :
        Returned(ToInt(m.out), encode(m.out), d))))

\* GET is the backend's plain read of the payload; the class adds no method
cas_get(ctx) ==
  Bind(cls_cxx_read(ctx), LAMBDA r : Returned(r.ret, r.bl, r))

\* ---------------------------------------------------------------- StubTool
\* StubTool::in builds the URL of an object from its id
Soids == {"x", "y"}
Url(soid) == <<"http://localhost:5000/", "objects/", soid>>
Urls == {Url(soid) : soid \in Soids}
\* One URL of the object service: whether it keeps an object, and its bytes.
NoObject == [kept |-> FALSE, bytes |-> <<>>]
Blobs == {<<1>>, <<1, 2>>, <<2, 1>>}
\* CURLcode as returned by curl_easy_perform: 0 is success
CurlCodes == {0, 7}
\* an int assigned to a bool
ToBool(n) == n # 0
\* "ret = new" executed on a ret that holds old
Assigned(old, new) == new

\* curl is whether curl_easy_init returned a handle, status what
\* curl_easy_perform returned; out_url_in is the caller's string at the call.
\* "ret = -EINVAL" after a failed transfer is followed by "ret = true".
StubTool_in(rem, soid, data, out_url_in, curl, status) ==
  IF curl
    THEN [ret |-> Assigned(IF status # 0 THEN ToBool(-EINVAL) ELSE FALSE, TRUE),
          out_url |-> Url(soid),
          requests |-> <<"PUT">>,
          remote |-> IF status = 0
                       THEN [rem EXCEPT ![Url(soid)] = [kept |-> TRUE, bytes |-> data]]
                     ELSE rem]
  ELSE [ret |-> FALSE, out_url |-> out_url_in, requests |-> <<>>, remote |-> rem]

\* the first half of StubTool::out: the GET.  resp is what the write callback
\* has appended to resp_data when curl_easy_perform returns.
StubTool_out_get(curl, status, resp) ==
  IF curl
    THEN [ret |-> Assigned(IF status # 0 THEN ToBool(-EINVAL) ELSE FALSE, TRUE),
          requests |-> <<"GET">>, resp_data |-> resp]
  ELSE [ret |-> FALSE, requests |-> <<>>, resp_data |-> <<>>]

\* StubTool::out: the GET, then the DELETE when there is a handle and ret is
\* set, then the hand-over of resp_data when ret is set
StubTool_out(rem, url, out_data_in, curl_get, status_get, resp, curl_del, status_del) ==
  Bind(StubTool_out_get(curl_get, status_get, resp), LAMBDA g :
    Bind(IF curl_del /\ g.ret
           THEN [ret |-> Assigned(IF status_del # 0 THEN ToBool(-EINVAL) ELSE g.ret, TRUE),
                 requests |-> Append(g.requests, "DELETE"),
                 remote |-> IF status_del = 0 THEN [rem EXCEPT ![url] = NoObject]
                            ELSE rem]
         ELSE [ret |-> FALSE, requests |-> g.requests, remote |-> rem], LAMBDA d :
      [ret |-> d.ret,
       out_data |-> IF d.ret THEN g.resp_data ELSE out_data_in,
       requests |-> d.requests,
       remote |-> d.remote]))

\* ------------------------------------------------------------ observations
\* What an observer of the backend sees of one object.
HasAttr(o, name) == name \in DOMAIN o.xattrs
Pinned(o) == o.exists /\ HasAttr(o, CAS_PINNED_ATTR)
\* the refcount attribute is there and holds a full-width value
Counted(o) ==
  o.exists /\ HasAttr(o, CAS_REFCOUNT_ATTR) /\ ~DecodeThrows(o.xattrs[CAS_REFCOUNT_ATTR])
\* the counter of the object: the value of the attribute, 0 without one
Counter(o) == IF Counted(o) THEN decode(o.xattrs[CAS_REFCOUNT_ATTR]) ELSE 0
\* the attributes under the metadata prefix
MetaNames(o) == {n \in DOMAIN o.xattrs : n[1] = CAS_METADATA_ATTR_PREFIX}
Meta(o) == [n \in MetaNames(o) |-> o.xattrs[n]]

\* ---------------------------------------------------------------------------
\* String hashes (include/ceph_hash.h, common/ceph_hash.cc)
\* ---------------------------------------------------------------------------

CEPH_STR_HASH_LINUX == 1
CEPH_STR_HASH_RJENKINS == 2
CEPH_STR_HASH_TRUNCATED_SHA1 == 3
CEPH_STR_HASH_TRUNCATED_MD5 == 4
CEPH_STR_HASH_ADLER32 == 5
CEPH_STR_HASH_CRC32 == 6
CEPH_STR_HASH_CRC32C == 7
CEPH_STR_HASH_XXHASH == 8

\* the types the header declares
DeclaredTypes == {CEPH_STR_HASH_LINUX, CEPH_STR_HASH_RJENKINS,
                  CEPH_STR_HASH_TRUNCATED_SHA1, CEPH_STR_HASH_TRUNCATED_MD5,
                  CEPH_STR_HASH_ADLER32, CEPH_STR_HASH_CRC32,
                  CEPH_STR_HASH_CRC32C, CEPH_STR_HASH_XXHASH}

\* the longest string hashed
MaxStrLen == 3
Chars == {1, 2}
Strs == UNION {[1..n -> Chars] : n \in 0..MaxStrLen}
\* the types a caller passes: the declared ones and one on either side
HashTypes == (CEPH_STR_HASH_LINUX - 1)..(CEPH_STR_HASH_XXHASH + 1)

\* The value of a hash function is kept as the function's name and the bytes
\* it has read (the first length bytes of str): the digests come from a
\* library, and nothing here depends on their bits.
Hashed(by, str, length) == [by |-> by, of |-> SubSeq(str, 1, length)]

ceph_str_hash_rjenkins(str, length) == Hashed("ceph_str_hash_rjenkins", str, length)
ceph_str_hash_linux(str, length) == Hashed("ceph_str_hash_linux", str, length)
ceph_str_hash_truncated_sha1(str, length) == Hashed("ceph_str_hash_truncated_sha1", str, length)
ceph_str_hash_truncated_md5(str, length) == Hashed("ceph_str_hash_truncated_md5", str, length)
ceph_str_hash_adler32(str, length) == Hashed("ceph_str_hash_adler32", str, length)
ceph_str_hash_crc32(str, length) == Hashed("ceph_str_hash_crc32", str, length)
\* declared in the header, defined nowhere in ceph_hash.cc
ceph_str_hash_crc32c(str, length) == Hashed("ceph_str_hash_crc32c", str, length)
ceph_str_hash_xxhash(str, length) == Hashed("ceph_str_hash_xxhash", str, length)

\* "return -1" of a function that returns unsigned
MinusOne == [by |-> "-1", of |-> <<>>]

ceph_str_hash(type, s, len) ==
  CASE type = CEPH_STR_HASH_LINUX -> ceph_str_hash_linux(s, len)
    [] type = CEPH_STR_HASH_RJENKINS -> ceph_str_hash_rjenkins(s, len)
    [] type = CEPH_STR_HASH_TRUNCATED_SHA1 -> ceph_str_hash_truncated_sha1(s, len)
    [] type = CEPH_STR_HASH_TRUNCATED_MD5 -> ceph_str_hash_truncated_md5(s, len)
    [] type = CEPH_STR_HASH_ADLER32 -> ceph_str_hash_adler32(s, len)
    [] type = CEPH_STR_HASH_CRC32 -> ceph_str_hash_crc32(s, len)
    [] OTHER -> MinusOne

ceph_str_hash_name(type) ==
  CASE type = CEPH_STR_HASH_LINUX -> "linux"
    [] type = CEPH_STR_HASH_RJENKINS -> "rjenkins"
    [] type = CEPH_STR_HASH_TRUNCATED_SHA1 -> "sha1-trunc"
    [] type = CEPH_STR_HASH_TRUNCATED_MD5 -> "md5-trunc"
    [] type = CEPH_STR_HASH_ADLER32 -> "adler32"
    [] type = CEPH_STR_HASH_CRC32 -> "crc32"
    [] OTHER -> "unknown"

\* the function the header declares for a declared type
DeclaredHash(type, s, len) ==
  CASE type = CEPH_STR_HASH_LINUX -> ceph_str_hash_linux(s, len)
    [] type = CEPH_STR_HASH_RJENKINS -> ceph_str_hash_rjenkins(s, len)
    [] type = CEPH_STR_HASH_TRUNCATED_SHA1 -> ceph_str_hash_truncated_sha1(s, len)
    [] type = CEPH_STR_HASH_TRUNCATED_MD5 -> ceph_str_hash_truncated_md5(s, len)
    [] type = CEPH_STR_HASH_ADLER32 -> ceph_str_hash_adler32(s, len)
    [] type = CEPH_STR_HASH_CRC32 -> ceph_str_hash_crc32(s, len)
    [] type = CEPH_STR_HASH_CRC32C -> ceph_str_hash_crc32c(s, len)
    [] type = CEPH_STR_HASH_XXHASH -> ceph_str_hash_xxhash(s, len)

\* ------------------------------------------------------------------- state
VARIABLES
  store,   \* the backend: one object per identity
  res,     \* the last invocation: method, identity, input, result, backend
           \* calls made, and the object as it was before the invocation
  sym,     \* set by a DOWN that directly follows a successful UP on the
           \* same identity: the object as it was before that UP
  nput,    \* per identity: successful PUTs since the identity was absent
           \* with no UP or DOWN in between (0: not tracked)
  first,   \* per identity: the payload of the PUT that created it
  gone,    \* per identity: a DOWN that brought the counter to 0 removed the
           \* object and no PUT has created it again
  retry,   \* "failing": the last invocations were PUTs of one envelope on one
           \* identity, the first on the absent identity, failed in a write;
           \* "done": the PUT just made is the first of them to succeed
  conc,    \* the invocations clients have issued on the shared identity:
           \* those in flight (issued, not yet run by the backend), how many
           \* were issued, the counter they add up to, and whether every one
           \* run so far found the counter away from 0 and from the maximum
  remote,  \* the object service StubTool talks to: the bytes kept per URL
  call     \* the last call of a function that is not a method of the class
           \* (object_pinned, StubTool::in, StubTool::out, ceph_str_hash):
           \* its arguments and what it returned

\* what the methods of the class never touch
side == <<remote, call>>
vars == <<store, res, sym, nput, first, gone, retry, conc, side>>

NoCall == [op |-> "none"]

NoFault == 0
\* the backend call of an invocation that fails, counted from 1; NoFault: none
Faults == NoFault..MaxFault
NoEnvelope == Envelope(FALSE, FALSE, FALSE, <<>>, NoData)
NoInvocation ==
  [op |-> "none", id |-> "", in |-> NoEnvelope, ret |-> 0, out |-> <<>>,
   calls |-> <<>>, fault |-> NoFault, before |-> AbsentObject]

NoPair == [follows |-> FALSE, before |-> AbsentObject]

Invocation(op, id, in, fault, r) ==
  [op |-> op, id |-> id, in |-> in, ret |-> r.ret, out |-> r.out,
   calls |-> r.ctx.calls, fault |-> fault, before |-> store[id]]

\* the objects the backend may hold when the class is first used on them:
\* any payload, with or without a refcount and a pin attribute, attribute
\* values that decode and values that are too short to decode
RefcountImages == {encode(n) : n \in 0..UINT64_MAX} \cup {<<>>}
PinImages == {encode(t) : t \in Times} \cup {<<>>}
Optional(S) == {{}} \cup {{x} : x \in S}
MakeXattrs(rc, pin) ==
  [n \in {CAS_REFCOUNT_ATTR : x \in rc} \cup {CAS_PINNED_ATTR : x \in pin} |->
     IF n = CAS_REFCOUNT_ATTR THEN CHOOSE x \in rc : TRUE
     ELSE CHOOSE x \in pin : TRUE]
StoreObjects ==
  {AbsentObject} \cup
  {[exists |-> TRUE, data |-> d, xattrs |-> MakeXattrs(rc, pin)] :
     d \in Payloads, rc \in Optional(RefcountImages), pin \in Optional(PinImages)}

Methods == {"put", "up", "down"}
\* nothing issued on an object whose counter is c
Idle(c) ==
  [flight |-> [m \in Methods |-> 0], issued |-> 0, want |-> c, clean |-> TRUE]

Ghosts ==
  /\ res = NoInvocation
  /\ sym = NoPair
  /\ nput = [i \in Ids |-> 0]
  /\ first = [i \in Ids |-> NoData]
  /\ gone = [i \in Ids |-> FALSE]
  /\ retry = "none"
  /\ remote = [u \in Urls |-> [kept |-> FALSE, bytes |-> <<>>]]
  /\ call = NoCall

\* after construction: an empty store
Init ==
  /\ store = [i \in Ids |-> AbsentObject]
  /\ Ghosts
  /\ conc = Idle(0)

\* the class loaded over a store in which identity "a" may already hold an
\* object written by an earlier run or by another client of the backend
InitStore ==
  /\ store \in {[i \in Ids |-> IF i = "a" THEN o ELSE AbsentObject] : o \in StoreObjects}
  /\ Ghosts
  /\ conc = Idle(0)

\* the shared identity "a" holds an object with a counter
Shared == "a"
InitShared ==
  /\ store \in {[i \in Ids |-> IF i = Shared THEN o ELSE AbsentObject] :
                  o \in {x \in StoreObjects : Counted(x)}}
  /\ Ghosts
  /\ conc = Idle(Counter(store[Shared]))

\* ----------------------------------------------------------------- actions
\* the count of PUTs the ghost nput holds after a PUT that returned r
Counted_puts(id, r) ==
  IF r.ret = 0
    THEN (IF ~store[id].exists THEN 1
          ELSE IF nput[id] = 0 \/ nput[id] = Modulus THEN 0
          ELSE nput[id] + 1)
  ELSE IF r.ctx.obj = store[id] THEN nput[id]
  ELSE 0

\* the retry ghost after a PUT that returned r
Retried(id, in, r) ==
  IF r.ret < 0
    THEN (IF \/ retry = "failing" /\ res.id = id /\ res.in = in
             \/ /\ ~store[id].exists
                /\ r.ctx.fault = Len(r.ctx.calls)
                /\ r.ctx.calls[Len(r.ctx.calls)] \in {"write_full", "setxattr"}
            THEN "failing"
          ELSE "none")
  ELSE IF retry = "failing" /\ res.id = id /\ res.in = in THEN "done"
  ELSE "none"

\* mutant: the object the method leaves behind is stored under every identity
Put_shared(id, in, now, fault) ==
  \E r \in {cls_cas_put(Context(store[id], fault), in, now)} :
    \E n \in {Counted_puts(id, r)} :
      /\ retry' = Retried(id, in, r)
      /\ store' = [i \in Ids |-> r.ctx.obj]
      /\ res' = Invocation("put", id, in, fault, r)
      /\ sym' = NoPair
      /\ nput' = [nput EXCEPT ![id] = n]
      /\ first' = [first EXCEPT ![id] =
                     IF n = 0 THEN NoData
                     ELSE IF n = 1 THEN in.data
                     ELSE @]
      /\ gone' = [gone EXCEPT ![id] = @ /\ ~r.ctx.obj.exists]
      /\ UNCHANGED side

Put(id, in, now, fault) ==
  \E r \in {cls_cas_put(Context(store[id], fault), in, now)} :
    \E n \in {Counted_puts(id, r)} :
      /\ retry' = Retried(id, in, r)
      /\ store' = [store EXCEPT ![id] = r.ctx.obj]
      /\ res' = Invocation("put", id, in, fault, r)
      /\ sym' = NoPair
      /\ nput' = [nput EXCEPT ![id] = n]
      /\ first' = [first EXCEPT ![id] =
                     IF n = 0 THEN NoData
                     ELSE IF n = 1 THEN in.data
                     ELSE @]
      /\ gone' = [gone EXCEPT ![id] = @ /\ ~r.ctx.obj.exists]
      /\ UNCHANGED side

Up(id, now, fault) ==
  \E r \in {cls_cas_up(Context(store[id], fault), now)} :
      /\ store' = [store EXCEPT ![id] = r.ctx.obj]
      /\ res' = Invocation("up", id, NoEnvelope, fault, r)
      /\ sym' = NoPair
      /\ nput' = [nput EXCEPT ![id] = 0]
      /\ first' = [first EXCEPT ![id] = NoData]
      /\ retry' = "none"
      /\ gone' = [gone EXCEPT ![id] = @ /\ ~r.ctx.obj.exists]
      /\ UNCHANGED side

Down(id, now, fault) ==
  \E r \in {cls_cas_down(Context(store[id], fault), now)} :
      /\ store' = [store EXCEPT ![id] = r.ctx.obj]
      /\ res' = Invocation("down", id, NoEnvelope, fault, r)
      /\ sym' = IF res.op = "up" /\ res.id = id /\ res.ret = 0
                  THEN [follows |-> TRUE, before |-> res.before]
                ELSE NoPair
      /\ nput' = [nput EXCEPT ![id] = 0]
      /\ first' = [first EXCEPT ![id] = NoData]
      /\ retry' = "none"
      /\ gone' = [gone EXCEPT ![id] =
                    \/ @
                    \/ Counted(store[id]) /\ Counter(store[id]) = 1 /\ ~r.ctx.obj.exists]
      /\ UNCHANGED side

Get(id, fault) ==
  \E r \in {cas_get(Context(store[id], fault))} :
      /\ store' = [store EXCEPT ![id] = r.ctx.obj]
      /\ res' = Invocation("get", id, NoEnvelope, fault, r)
      /\ sym' = NoPair
      /\ retry' = "none"
      /\ UNCHANGED <<nput, first, gone, side>>

Next ==
  \/ \E id \in Ids, in \in Envelopes, now \in Times :
       Put(id, in, now, NoFault) /\ UNCHANGED conc
  \/ \E id \in Ids, now \in Times : Up(id, now, NoFault) /\ UNCHANGED conc
  \/ \E id \in Ids, now \in Times : Down(id, now, NoFault) /\ UNCHANGED conc
  \/ \E id \in Ids : Get(id, NoFault) /\ UNCHANGED conc

Spec == Init /\ [][Next]_vars
SpecStore == InitStore /\ [][Next]_vars

\* the same methods over a backend of which any one call of an invocation on
\* identity "a" may fail with an I/O error
FaultIds == {"a"}
NextFault ==
  \/ \E id \in FaultIds, in \in Envelopes, now \in Times, fault \in Faults :
       Put(id, in, now, fault) /\ UNCHANGED conc
  \/ \E id \in FaultIds, now \in Times, fault \in Faults :
       Up(id, now, fault) /\ UNCHANGED conc
  \/ \E id \in FaultIds, now \in Times, fault \in Faults :
       Down(id, now, fault) /\ UNCHANGED conc
  \/ \E id \in FaultIds, fault \in Faults : Get(id, fault) /\ UNCHANGED conc

SpecFault == InitStore /\ [][NextFault]_vars

\* creations with several metadata pairs, and removals, on one identity over
\* the failing backend
NextCreate ==
  \/ \E in \in PairEnvelopes, now \in Times, fault \in Faults :
       Put(Shared, in, now, fault) /\ UNCHANGED conc
  \/ \E now \in Times, fault \in Faults :
       Down(Shared, now, fault) /\ UNCHANGED conc

SpecCreate == Init /\ [][NextCreate]_vars

\* the variables of the object class
cas == <<store, res, sym, nput, first, gone, retry, conc>>

\* an object is sent away to the service
In(soid, data, curl, status) ==
  \E r \in {StubTool_in(remote, soid, data, <<>>, curl, status)} :
    /\ remote' = r.remote
    /\ call' = [op |-> "in", url |-> Url(soid), ret |-> r.ret, out_url |-> r.out_url,
                requests |-> r.requests]
    /\ UNCHANGED cas

\* the bytes a GET has delivered when it ends with status
Received(url, status) ==
  IF status = 0 THEN {remote[url].bytes}
  ELSE {SubSeq(remote[url].bytes, 1, n) : n \in 0..Len(remote[url].bytes)}

\* an object that was sent away is fetched back
Out(url, curl_get, status_get, curl_del, status_del) ==
  /\ remote[url].kept
  /\ \E resp \in Received(url, status_get) :
       \E r \in {StubTool_out(remote, url, <<>>, curl_get, status_get, resp,
                              curl_del, status_del)} :
         /\ remote' = r.remote
         /\ call' = [op |-> "out", url |-> url, ret |-> r.ret, out_data |-> r.out_data,
                     requests |-> r.requests,
                     retrieved |-> curl_get /\ status_get = 0,
                     before |-> remote[url]]
         /\ UNCHANGED cas

NextStub ==
  \/ \E soid \in Soids, data \in Blobs, curl \in BOOLEAN, status \in CurlCodes :
       In(soid, data, curl, status)
  \/ \E url \in Urls, curl_get \in BOOLEAN, status_get \in CurlCodes,
        curl_del \in BOOLEAN, status_del \in CurlCodes :
       Out(url, curl_get, status_get, curl_del, status_del)

SpecStub == Init /\ [][NextStub]_vars

\* a caller hashes a string under a type and asks for the type's name
Hash(type, s) ==
  /\ call' = [op |-> "hash", type |-> type, s |-> s,
              value |-> ceph_str_hash(type, s, Len(s)),
              name |-> ceph_str_hash_name(type)]
  /\ UNCHANGED <<cas, remote>>

NextHash == \E type \in HashTypes, s \in Strs : Hash(type, s)

SpecHash == Init /\ [][NextHash]_vars

\* what the caller's out_pinned_since holds before the call: <<>> when the
\* caller passes no pointer, <<t>> for a variable that holds t
SinceIn == {<<>>} \cup {<<t>> : t \in {0} \cup Times}

\* the pin of an object is queried
ObjectPinned(id, pinned_in, since_in) ==
  \E r \in {object_pinned(Context(store[id], NoFault), pinned_in, since_in)} :
    /\ call' = [op |-> "object_pinned", before |-> store[id],
                pinned_in |-> pinned_in, since_in |-> since_in,
                ret |-> r.ret, pinned |-> r.pinned, since |-> r.since]
    /\ UNCHANGED <<cas, remote>>

NextPinned ==
  \E id \in Ids, pinned_in \in BOOLEAN, since_in \in SinceIn :
    ObjectPinned(id, pinned_in, since_in)

SpecPinned == InitStore /\ [][NextPinned]_vars

\* clients issue PUT, UP and DOWN on the shared identity concurrently; the
\* backend runs the invocations in flight one at a time, in any order, each
\* with exclusive access to the object
Issue(m) ==
  /\ conc.issued < MaxIssued
  /\ conc' = [conc EXCEPT !.flight[m] = @ + 1,
                          !.issued = @ + 1,
                          !.want = IF m = "down" THEN @ - 1 ELSE @ + 1]
  /\ UNCHANGED <<store, res, sym, nput, first, gone, retry, side>>

\* the invocation of m that the backend runs next finds the counter where
\* neither an increment overflows it nor a decrement brings it to 0
InRange(m) ==
  /\ Counted(store[Shared])
  /\ IF m = "down" THEN Counter(store[Shared]) > 1
     ELSE Counter(store[Shared]) < UINT64_MAX

Served(m) ==
  /\ conc.flight[m] > 0
  /\ conc' = [conc EXCEPT !.flight[m] = @ - 1, !.clean = @ /\ InRange(m)]

ServePut(in, now) == Served("put") /\ Put(Shared, in, now, NoFault)
ServeUp(now) == Served("up") /\ Up(Shared, now, NoFault)
ServeDown(now) == Served("down") /\ Down(Shared, now, NoFault)

NextShared ==
  \/ \E m \in Methods : Issue(m)
  \/ \E in \in Envelopes, now \in Times : ServePut(in, now)
  \/ \E now \in Times : ServeUp(now)
  \/ \E now \in Times : ServeDown(now)

SpecShared == InitShared /\ [][NextShared]_vars

\* ------------------------------------------------------------ properties
LastOn(op) == res.op = op
Obj == store[res.id]

\* C1 (as stated): after the Nth successful PUT on an identity that was
\* absent, with no UP or DOWN in between, the counter is N and the payload is
\* the payload of the first PUT, for every N >= 1.
C1_CreateOnceAnyN ==
  \A id \in Ids :
    nput[id] >= 1 =>
      /\ store[id].exists
      /\ Counter(store[id]) = nput[id]
      /\ store[id].data = first[id]

\* C1 (amended): after the Nth successful PUT on an identity that was absent,
\* with no UP or DOWN in between, and N no larger than the maximum of the
\* counter, the counter is N and the payload is the payload of the first PUT.
C1_CreateOnce ==
  \A id \in Ids :
    nput[id] \in 1..UINT64_MAX =>
      /\ Counted(store[id])
      /\ Counter(store[id]) = nput[id]
      /\ store[id].data = first[id]

\* a second or later PUT, carrying another payload than the first, was counted
C1_Witness ==
  /\ LastOn("put") /\ res.ret = 0
  /\ nput[res.id] >= 2
  /\ res.in.data # first[res.id]

\* every attribute of the object other than the counter is as it was before
\* the last invocation
OtherAttrsKept ==
  /\ DOMAIN Obj.xattrs \ {CAS_REFCOUNT_ATTR} = DOMAIN res.before.xattrs \ {CAS_REFCOUNT_ATTR}
  /\ \A n \in DOMAIN res.before.xattrs \ {CAS_REFCOUNT_ATTR} :
       Obj.xattrs[n] = res.before.xattrs[n]

PutOnPresentFrame ==
  /\ Obj.exists
  /\ Obj.data = res.before.data
  /\ OtherAttrsKept
  /\ Meta(Obj) = Meta(res.before)
  /\ Pinned(Obj) = Pinned(res.before)
  /\ Counted(Obj)
  /\ Counter(Obj) = Counter(res.before) + 1
  /\ \A i \in DOMAIN res.calls : res.calls[i] # "write_full"

\* C2 (as stated): a successful PUT on a present identity changes only the
\* counter, by +1; payload, metadata and pin are as before and the payload is
\* not written again, whatever payload and metadata the PUT carries.
C2_PutOnPresentAnyCounter ==
  (LastOn("put") /\ res.before.exists /\ res.ret = 0) => PutOnPresentFrame

\* C2 (amended): a successful PUT on a present identity whose counter is
\* below the maximum changes only the counter, by +1; payload, metadata and
\* pin are as before and the payload is not written again, whatever payload
\* and metadata the PUT carries.
C2_PutOnPresent ==
  (/\ LastOn("put") /\ res.before.exists /\ res.ret = 0
   /\ Counter(res.before) < UINT64_MAX) => PutOnPresentFrame

\* a PUT with another payload and with metadata succeeded on a present object
C2_Witness ==
  /\ LastOn("put") /\ res.before.exists /\ res.ret = 0
  /\ Counter(res.before) < UINT64_MAX
  /\ res.in.data \in Payloads /\ res.in.data # res.before.data
  /\ DOMAIN res.in.meta # {} /\ MetaNames(res.before) = {}

\* C3: a successful PUT on an absent identity leaves the object present with
\* the supplied payload, counter 1, each supplied metadata pair under the
\* metadata prefix and nothing else, and no pin attribute.
C3_Create ==
  (LastOn("put") /\ ~res.before.exists /\ res.ret = 0) =>
    /\ Obj.exists
    /\ Obj.data = res.in.data
    /\ Counted(Obj) /\ Counter(Obj) = 1
    /\ ~Pinned(Obj)
    /\ MetaNames(Obj) = {<<CAS_METADATA_ATTR_PREFIX, k>> : k \in DOMAIN res.in.meta}
    /\ \A k \in DOMAIN res.in.meta :
         Obj.xattrs[<<CAS_METADATA_ATTR_PREFIX, k>>] = encode_string(res.in.meta[k])
    /\ DOMAIN Obj.xattrs = {CAS_REFCOUNT_ATTR} \cup MetaNames(Obj)

\* a PUT carrying metadata created an object
C3_Witness ==
  /\ LastOn("put") /\ ~res.before.exists /\ res.ret = 0
  /\ DOMAIN res.in.meta # {}
  /\ Obj.exists

\* C4: a DOWN that brings the counter of an object without pin attribute to
\* 0 leaves the identity absent, payload and attributes gone; and every GET,
\* UP or DOWN on the identity after that, while it has not been created
\* again, reports not-found (GET) or invalid-argument (UP, DOWN) and leaves it
\* absent.
C4_ZeroDeletion ==
  /\ (/\ LastOn("down") /\ ~Pinned(res.before)
      /\ Counted(res.before) /\ Counter(res.before) = 1) =>
       (Obj = AbsentObject /\ gone[res.id])
  /\ \A id \in Ids : gone[id] => store[id] = AbsentObject
  /\ (res.op \in {"get", "up", "down"} /\ ~res.before.exists /\ gone[res.id]) =>
       /\ res.ret = (IF res.op = "get" THEN -ENOENT ELSE -EINVAL)
       /\ Obj = AbsentObject

\* an UP was refused on an identity that a DOWN to 0 had removed
C4_Witness ==
  /\ LastOn("up") /\ ~res.before.exists /\ gone[res.id]
  /\ res.ret = -EINVAL

\* C5: a DOWN that brings the counter of an object with a pin attribute to 0
\* does not remove the object; it stays present with its payload.
C5_PinKeeps ==
  (/\ LastOn("down") /\ Pinned(res.before)
   /\ Counted(res.before) /\ Counter(res.before) = 1) =>
     /\ Obj.exists
     /\ Obj.data = res.before.data
     /\ Counter(Obj) = 0
     /\ Pinned(Obj)

\* a DOWN took the counter of a pinned object from 1 to 0
C5_Witness ==
  /\ LastOn("down") /\ Pinned(res.before)
  /\ Counted(res.before) /\ Counter(res.before) = 1
  /\ res.out = encode(0)
  /\ Obj.exists

\* C6: an increment (UP, or PUT on a present object) applied at the maximum
\* counter value leaves the counter at the maximum and the object pinned.
C6_Saturation ==
  (/\ res.op \in {"up", "put"} /\ res.ret = 0
   /\ Counted(res.before) /\ Counter(res.before) = UINT64_MAX) =>
     /\ Counter(Obj) = UINT64_MAX
     /\ Pinned(Obj)

\* C7: a DOWN on an absent identity returns an error, makes no remove call
\* and no attribute write, and leaves the identity absent.
C7_DownOnAbsent ==
  (LastOn("down") /\ ~res.before.exists) =>
    /\ res.ret < 0
    /\ \A i \in DOMAIN res.calls : res.calls[i] \notin {"remove", "setxattr", "write_full"}
    /\ Obj = AbsentObject

\* a DOWN was issued on an absent identity
C7_Witness ==
  /\ LastOn("down") /\ ~res.before.exists
  /\ res.ret = -EINVAL

\* C8: an UP on an absent identity returns invalid-argument, writes neither
\* payload nor attribute, and leaves the identity absent.
C8_UpOnAbsent ==
  (LastOn("up") /\ ~res.before.exists) =>
    /\ res.ret = -EINVAL
    /\ \A i \in DOMAIN res.calls : res.calls[i] \notin {"setxattr", "write_full"}
    /\ Obj = AbsentObject

\* an UP was issued on an absent identity that had never been removed
C8_Witness ==
  /\ LastOn("up") /\ ~res.before.exists /\ ~gone[res.id]
  /\ res.ret = -EINVAL

\* C9: a DOWN that directly follows a successful UP on the same object, the
\* counter c before the UP being neither 0 nor the maximum, leaves the
\* counter at c and the object present with the payload it had.
C9_UpDown ==
  (/\ LastOn("down") /\ sym.follows
   /\ Counter(sym.before) \in 1..(UINT64_MAX - 1)) =>
     /\ Obj.exists
     /\ Counted(Obj)
     /\ Counter(Obj) = Counter(sym.before)
     /\ Obj.data = sym.before.data

\* a DOWN directly followed an UP on an object whose counter was in range
C9_Witness ==
  /\ LastOn("down") /\ sym.follows
  /\ Counter(sym.before) \in 1..(UINT64_MAX - 1)
  /\ Counter(res.before) = Counter(sym.before) + 1
  /\ Obj.exists

\* a DOWN succeeded: it was applied to a present object and its write of the
\* counter went through
DownApplied ==
  /\ LastOn("down") /\ res.before.exists
  /\ \E i \in DOMAIN res.calls : res.calls[i] = "setxattr" /\ res.fault # i

\* C10: a successful DOWN on a present object returns, in its out buffer, the
\* counter after the decrement: the value it persisted when the object is
\* kept, 0 when the object was removed; its return code is that value as an
\* int.
C10_DownReturns ==
  DownApplied =>
    /\ ~DecodeThrows(res.out)
    /\ decode(res.out) = (IF Obj.exists THEN Counter(Obj) ELSE 0)
    /\ Obj.exists => Counted(Obj)
    /\ decode(res.out) = (Counter(res.before) + UINT64_MAX) % Modulus
    /\ res.ret = ToInt(decode(res.out))

\* a DOWN removed the object and returned 0
C10_Witness ==
  /\ DownApplied
  /\ ~Obj.exists
  /\ res.out = encode(0) /\ res.ret = 0

\* C11: when every invocation of a set of concurrent PUT, UP and DOWN
\* invocations on one existing object (counter c) has run, in whatever order
\* the backend chose, and none of them overflowed the counter or brought it to
\* 0, the counter is c plus the increments minus the decrements issued.
C11_NoLostUpdate ==
  (/\ conc.issued > 0 /\ conc.clean
   /\ \A m \in Methods : conc.flight[m] = 0) =>
     /\ Counted(store[Shared])
     /\ Counter(store[Shared]) = conc.want

\* three invocations, a decrement run last among them, have all run
C11_Witness ==
  /\ conc.issued = 3 /\ conc.clean
  /\ \A m \in Methods : conc.flight[m] = 0
  /\ LastOn("down")
  /\ Counter(store[Shared]) = Counter(res.before) - 1
  /\ conc.want = Counter(store[Shared])

\* the last invocation was a method of the class and its write of the counter
\* went through
CounterWritten ==
  /\ res.op \in Methods
  /\ \E i \in DOMAIN res.calls : res.calls[i] = "setxattr" /\ res.fault # i

\* C12: in every execution, backend failures included, an object is removed
\* only by a DOWN that wrote the decremented counter, the counter having been
\* 1, on an object without pin; PUT and UP remove nothing and no DOWN removes
\* an object whose counter is above 0.
C12_NoPrematureDeletion ==
  (res.op \in Methods /\ res.before.exists /\ ~Obj.exists) =>
    /\ LastOn("down")
    /\ CounterWritten
    /\ Counted(res.before) /\ Counter(res.before) = 1
    /\ ~Pinned(res.before)

\* C13: in every execution, backend failures included, an object that has
\* the pin attribute before a PUT, UP or DOWN and exists after it still has
\* the pin attribute; and an object gets the pin attribute only in an
\* increment (UP, or PUT on the present object) made at the maximum counter,
\* never in a creation, another increment or a decrement.
C13_PinOneWay ==
  res.op \in Methods =>
    /\ (Pinned(res.before) /\ Obj.exists) => Pinned(Obj)
    /\ (~Pinned(res.before) /\ Pinned(Obj)) =>
         /\ res.op \in {"up", "put"}
         /\ Counted(res.before) /\ Counter(res.before) = UINT64_MAX

\* an increment at the maximum counter was applied to a pinned object
C13_Witness ==
  /\ LastOn("up") /\ res.ret = 0 /\ CounterWritten
  /\ Pinned(res.before)
  /\ Counted(res.before) /\ Counter(res.before) = UINT64_MAX
  /\ Pinned(Obj)

\* the refcount attribute is there and does not decode
Malformed(o) ==
  o.exists /\ HasAttr(o, CAS_REFCOUNT_ATTR) /\ DecodeThrows(o.xattrs[CAS_REFCOUNT_ATTR])

\* C14: a PUT, UP or DOWN on a present object whose refcount attribute does
\* not decode fails with -EIO and leaves the object as it was: present, with
\* the same payload and the same attributes (refcount, pin, metadata).
C14_MalformedCounter ==
  (res.op \in Methods /\ Malformed(res.before)) =>
    /\ res.ret = -EIO
    /\ Obj = res.before

\* one of the backend calls of the last invocation failed
BackendFailed == res.fault \in DOMAIN res.calls

\* C15: a PUT, UP or DOWN of which a backend call (stat, attribute read or
\* write, payload write, remove) failed returns the error of that call; it
\* returns neither 0 nor a counter value.
C15_ErrorPropagation ==
  (res.op \in Methods /\ BackendFailed) => res.ret = -EIO

\* C16: when a PUT on an absent identity has failed in one of its writes
\* (payload, refcount, metadata) and the caller has repeated the same PUT
\* until one succeeded, the counter is 1, the number of PUTs that succeeded.
C16_PutRetry ==
  retry = "done" => (Counted(Obj) /\ Counter(Obj) = 1)

\* C17: a PUT, UP or DOWN whose initial stat fails with an error other than
\* -ENOENT returns that error and makes no further backend call: no payload
\* write, no attribute write, no remove; the object is as it was.
C17_StatError ==
  (res.op \in Methods /\ res.fault = 1) =>
    /\ res.ret = -EIO
    /\ res.calls = <<"stat">>
    /\ Obj = res.before

\* the stat of a PUT carrying a payload failed on a present object
C17_Witness ==
  /\ LastOn("put") /\ res.fault = 1 /\ res.ret = -EIO
  /\ res.in \in ValidEnvelopes
  /\ res.before.exists /\ Obj.exists

\* C18: a PUT on an absent identity whose envelope does not decode (not
\* JSON, or without "meta" or "data") returns -EINVAL having made no backend
\* call after the stat: nothing is written and the identity is still absent.
C18_MalformedEnvelope ==
  (LastOn("put") /\ ~res.before.exists /\ JsonThrows(res.in)) =>
    /\ res.ret = -EINVAL
    /\ res.calls = <<"stat">>
    /\ Obj = AbsentObject

\* a PUT whose envelope parses but lacks the payload met an absent identity
C18_Witness ==
  /\ LastOn("put") /\ ~res.before.exists
  /\ res.in.parsable /\ res.in.has_meta /\ ~res.in.has_data
  /\ res.ret = -EINVAL

C20_Monotone ==
  (res.op \in {"up", "put"} /\ res.ret = 0 /\ res.before.exists) =>
    /\ Counter(Obj) >= Counter(res.before)
    /\ LastOn("up") => decode(res.out) >= Counter(res.before)

\* C21: a DOWN on a present object never persists, and never returns, a
\* counter larger than the counter the object had; in particular a DOWN on an
\* object whose counter reads 0 does not wrap the counter around.
C21_NoUnderflow ==
  (LastOn("down") /\ res.before.exists) =>
    /\ Obj.exists => Counter(Obj) <= Counter(res.before)
    /\ ~DecodeThrows(res.out) => decode(res.out) <= Counter(res.before)

\* the k least keys of K: the pairs the loop of set_cas_metadata has written
\* when its write number k + 1 fails
RECURSIVE LeastKeys(_, _)
LeastKeys(K, k) ==
  IF k = 0 \/ K = {} THEN {} ELSE {Least(K)} \cup LeastKeys(K \ {Least(K)}, k - 1)

\* the last invocation was a PUT on an absent identity, with an envelope that
\* decodes, of which backend call number n failed
CreationFailedAt(n) ==
  /\ LastOn("put") /\ ~res.before.exists /\ ~JsonThrows(res.in)
  /\ res.fault = n /\ Len(res.calls) = n

\* C22: a PUT on an absent identity whose refcount write fails after the
\* payload write returns the error and leaves the object present with the
\* payload and no attribute (the counter reads 0); one whose metadata write
\* fails after k pairs returns the error and leaves the payload, refcount 1
\* and exactly the first k pairs.
C22_NoRollback ==
  /\ CreationFailedAt(3) =>
       /\ res.ret = -EIO
       /\ Obj.exists /\ Obj.data = res.in.data
       /\ DOMAIN Obj.xattrs = {}
       /\ Counter(Obj) = 0
  /\ \A k \in 0..(MaxPairs - 1) :
       CreationFailedAt(4 + k) =>
         /\ res.ret = -EIO
         /\ Obj.exists /\ Obj.data = res.in.data
         /\ Counted(Obj) /\ Counter(Obj) = 1
         /\ MetaNames(Obj) =
              {<<CAS_METADATA_ATTR_PREFIX, j>> : j \in LeastKeys(DOMAIN res.in.meta, k)}
         /\ \A j \in LeastKeys(DOMAIN res.in.meta, k) :
              Obj.xattrs[<<CAS_METADATA_ATTR_PREFIX, j>>] = encode_string(res.in.meta[j])
         /\ DOMAIN Obj.xattrs = {CAS_REFCOUNT_ATTR} \cup MetaNames(Obj)

\* the write of the second metadata pair failed: one pair is left
C22_Witness ==
  /\ CreationFailedAt(5)
  /\ res.ret = -EIO
  /\ Cardinality(MetaNames(Obj)) = 1

\* a failed UP leaves the object, its refcount attribute included, as it was
FailedUpKeeps == (LastOn("up") /\ res.ret < 0) => Obj = res.before

UpReturnsPersisted ==
  /\ Counted(Obj)
  /\ ~DecodeThrows(res.out)
  /\ decode(res.out) = Counter(Obj)
  /\ Counter(Obj) = Counter(res.before) + 1

\* C23 (as stated): a successful UP on a present object returns the counter
\* it persisted, which is the counter read plus one, whatever the counter
\* read; a failed UP changes no persisted counter.
C23_UpReturnsAnyCounter ==
  /\ (LastOn("up") /\ res.before.exists /\ res.ret = 0) => UpReturnsPersisted
  /\ FailedUpKeeps

\* C23 (amended): a successful UP on a present object whose counter is below
\* the maximum returns the counter it persisted, which is the counter read
\* plus one; a failed UP changes no persisted counter.
C23_UpReturns ==
  /\ (/\ LastOn("up") /\ res.before.exists /\ res.ret = 0
      /\ Counter(res.before) < UINT64_MAX) => UpReturnsPersisted
  /\ FailedUpKeeps

\* an UP raised a counter of at least 1 and returned the new value
C23_Witness ==
  /\ LastOn("up") /\ res.ret = 0
  /\ Counted(res.before) /\ Counter(res.before) \in 1..(UINT64_MAX - 1)
  /\ res.out = encode(Counter(res.before) + 1)

\* C24: after any sequence of PUT, UP and DOWN invocations that starts from
\* the empty store and meets no backend failure, every present object without
\* pin attribute has a refcount attribute whose value is at least 1.
C24_CountedWhilePresent ==
  \A id \in Ids :
    (store[id].exists /\ ~Pinned(store[id])) =>
      (Counted(store[id]) /\ Counter(store[id]) >= 1)

\* C25: StubTool::out sends the DELETE only after the GET has delivered the
\* object, returns true with the object's bytes in out_data only when the GET
\* succeeded, and leaves the remote copy in place when the GET failed.
C25_DeleteAfterRetrieval ==
  call.op = "out" =>
    /\ (\E i \in DOMAIN call.requests : call.requests[i] = "DELETE") => call.retrieved
    /\ call.ret => (call.retrieved /\ call.out_data = call.before.bytes)
    /\ ~call.retrieved => remote[call.url] = call.before

\* C26: for every type the header declares, ceph_str_hash returns what the
\* function declared for that type returns and ceph_str_hash_name returns a
\* name other than "unknown"; every other type gives -1 and "unknown".
C26_DispatchTotal ==
  call.op = "hash" =>
    IF call.type \in DeclaredTypes
      THEN /\ call.value = DeclaredHash(call.type, call.s, Len(call.s))
           /\ call.name # "unknown"
      ELSE /\ call.value = MinusOne
           /\ call.name = "unknown"

\* C27: on an existing object, object_pinned reports pinned = true and (when
\* the caller asks for it) the time held by the pin attribute whenever the
\* attribute is there and decodes, reports pinned = false with return code 0
\* when the attribute is not there, and returns an error when the attribute
\* does not decode, whatever the caller's variables held before the call.
C27_PinQuery ==
  (call.op = "object_pinned" /\ call.before.exists) =>
    IF ~HasAttr(call.before, CAS_PINNED_ATTR)
      THEN call.ret = 0 /\ ~call.pinned
    ELSE IF DecodeThrows(call.before.xattrs[CAS_PINNED_ATTR])
      THEN call.ret < 0
    ELSE /\ call.ret = 0
         /\ call.pinned
         /\ call.since_in # <<>> =>
              call.since = <<decode(call.before.xattrs[CAS_PINNED_ATTR])>>

====
